---- MODULE Spec2Model ----
(***************************************************************************)
(* TelegramBotPolling (src/src/telegramPolling.js): the long-polling       *)
(* lifecycle controller and its fetch-process-reschedule cycle.            *)
(*                                                                         *)
(* Granularity.  JavaScript runs every handler to completion, so one       *)
(* action is one task of the event loop together with the promise          *)
(* callbacks it releases: an API call (start, stop), the settling of one   *)
(* network operation of a cycle (getUpdates, setWebHook) with the then /   *)
(* catch / finally callbacks that follow it, or the firing of a timer.     *)
(* The network operations are the suspension points of a cycle; between    *)
(* them any API call or any event of another cycle may run.                *)
(***************************************************************************)
EXTENDS Integers, Sequences, FiniteSets, Bags, TLC

\* ------------------------------------------------------------------ bounds
MaxId == 2
MaxBatch == 2
MaxCycles == 2
MaxOrphan == 1

\* --------------------------------------------------------------- constants
ANOTHER_WEB_HOOK_USED == 409
DefaultTimeout == 10

Ids == 1..MaxId
Statuses == {ANOTHER_WEB_HOOK_USED, 500}

RECURSIVE SeqsUpTo(_, _)
SeqsUpTo(S, n) ==
    IF n = 0 THEN {<<>>}
    ELSE LET shorter == SeqsUpTo(S, n - 1)
         IN shorter \cup {Append(q, x) : q \in {p \in shorter : Len(p) = n - 1}, x \in S}

\* the batches a fetch may return: any ids in any order
Batches == SeqsUpTo(Ids, MaxBatch)

\* the batches of the specification of all interleavings, where only the
\* advance of the offset matters: no update, or one
LifeBatches == {<<>>, <<1>>}

\* ------------------------------------------------------------------- state
VARIABLES
    isPollingActive,  \* this._isPollingActive
    lastRequest,      \* this._lastRequest: "null", "pending" or "settled"
    abort,            \* this._abort
    pollingTimeout,   \* the timer this._pollingTimeout refers to is pending
    orphanTimers,     \* pending timers whose handle was overwritten
    offset,           \* this.options.params.offset
    req,              \* the bag of the cycles (promise chains) not yet settled
    emitted,          \* lifecycle events emitted by the last task
    reports,          \* errors the last task reported, and on which channel
    proc,             \* what the last task's forEach over a batch did
    done,             \* what the cycle that settled in the last task did
    lastCall          \* the last call of start or stop, where it is recorded

vars == <<isPollingActive, lastRequest, abort, pollingTimeout, orphanTimers,
          offset, req, emitted, reports, proc, done, lastCall>>

NoProc == [ran |-> FALSE]
NoDone == [ran |-> FALSE]

\* A cycle: the operation it awaits (pc), whether it is the chain
\* _lastRequest refers to (last), whether a stop() attached a finally
\* callback to it (waiter), whether stop({cancel: true}) was called on it
\* (stopCancel), the calls it made on the bot (trace), and the update whose
\* processing failed (failedId, while the recovery fetch is awaited).
Cycle(pc, trace) ==
    [pc |-> pc, last |-> TRUE, waiter |-> FALSE, stopCancel |-> FALSE,
     trace |-> trace, failedId |-> 0]

\* the controller as one record, so that a handler is a function on it;
\* badRejection and hasListener are what the handler reads from the bot
\* when it runs (bot.options.badRejection, bot.listeners('polling_error')),
\* answer is how the network operation the task follows ended, uncaught
\* whether the chain carries a rejection no callback has handled yet
cur ==
    [isPollingActive |-> isPollingActive, lastRequest |-> lastRequest,
     abort |-> abort, pollingTimeout |-> pollingTimeout,
     orphanTimers |-> orphanTimers, offset |-> offset, req |-> req,
     emitted |-> <<>>, proc |-> NoProc, done |-> NoDone,
     reports |-> <<>>, badRejection |-> FALSE, hasListener |-> FALSE,
     answer |-> "none", uncaught |-> FALSE, lastCall |-> lastCall]

bot(s, answer, badRejection, hasListener) ==
    [s EXCEPT !.answer = answer, !.badRejection = badRejection,
              !.hasListener = hasListener]

Becomes(s) ==
    /\ isPollingActive' = s.isPollingActive
    /\ lastRequest' = s.lastRequest
    /\ abort' = s.abort
    /\ pollingTimeout' = s.pollingTimeout
    /\ orphanTimers' = s.orphanTimers
    /\ offset' = s.offset
    /\ req' = s.req
    /\ emitted' = s.emitted
    /\ reports' = s.reports
    /\ proc' = s.proc
    /\ done' = s.done
    /\ lastCall' = s.lastCall

emit(s, event) == [s EXCEPT !.emitted = Append(@, event)]

Put(s, c) == [s EXCEPT !.req = @ (+) SetToBag({c})]
Take(s, c) == [s EXCEPT !.req = @ (-) SetToBag({c})]
Replace(s, c, d) == Put(Take(s, c), d)

Cycles(s) == BagToSet(s.req)

\* stop({cancel: true}) was called while the cycles of B were pending
Marked(B) ==
    LET targets == {[c EXCEPT !.stopCancel = TRUE] : c \in BagToSet(B)}
    IN [d \in targets |-> CopiesIn(d, B) + CopiesIn([d EXCEPT !.stopCancel = FALSE], B)]

\* ---------------------------------------------------------- network calls
\* the arguments of the calls a cycle makes on the bot
GetUpdates(opts) == [op |-> "getUpdates", opts |-> opts]
SetWebHook == [op |-> "setWebHook", opts |-> [offset |-> 0, limit |-> 0, timeout |-> 0]]

params(s) == [offset |-> s.offset, limit |-> 0, timeout |-> DefaultTimeout]

\* _getUpdates, up to its suspension on bot.getUpdates(this.options.params)
getUpdates(s) == Cycle("fetch", <<GetUpdates(params(s))>>)

\* _polling: this._lastRequest = this._getUpdates().then().catch().finally();
\* the chain _lastRequest referred to is no longer referred to
polling(s) ==
    LET old == {c \in Cycles(s) : c.last}
        s1 == IF old = {} THEN s
              ELSE LET c == CHOOSE c \in old : TRUE
                   IN Replace(s, c, [c EXCEPT !.last = FALSE])
    IN [Put(s1, getUpdates(s)) EXCEPT !.lastRequest = "pending"]

\* ----------------------------------------------------------------- timers
setTimeout(s) ==
    IF s.pollingTimeout THEN [s EXCEPT !.orphanTimers = @ + 1]
    ELSE [s EXCEPT !.pollingTimeout = TRUE]

clearTimeout(s) == [s EXCEPT !.pollingTimeout = FALSE]

\* (mutant) a next cycle is scheduled by a then callback, after a cycle that
\* reported nothing
pollingFinally_afterSuccessOnly(s) ==
    IF s.abort \/ s.reports # <<>> THEN s ELSE setTimeout(s)

\* the finally callback of _polling
pollingFinally(s) == IF s.abort THEN s ELSE setTimeout(s)

\* ------------------------------------------------------------------- stop
\* lastRequest.cancel(reason): the cancellation propagates to the pending
\* operation of the chain, which is aborted; none of the chain's callbacks
\* runs afterwards
cancel(s, c) == Take(s, c)

\* the callback stop() hands to lastRequest.finally
stopFinally(s) ==
    emit([s EXCEPT !.abort = FALSE, !.isPollingActive = FALSE], "polling_stopped")

\* stop(options) once _lastRequest is known not to be null; a chain that has
\* settled is not affected by cancel(), and runs at once, in the same task,
\* the callback handed to its finally()
stopRequest(s, options) ==
    LET s1 == clearTimeout([s EXCEPT !.lastRequest = "null"])
    IN IF s.lastRequest = "settled"
       THEN IF options.cancel
            THEN [emit(s1, "polling_stopped") EXCEPT !.isPollingActive = FALSE]
            ELSE stopFinally([s1 EXCEPT !.abort = TRUE])
       ELSE LET c == CHOOSE c \in Cycles(s) : c.last
                d == [c EXCEPT !.last = FALSE]
            IN IF options.cancel
               THEN [emit(cancel(Replace(s1, c, d), d), "polling_stopped")
                       EXCEPT !.isPollingActive = FALSE]
               ELSE Replace([s1 EXCEPT !.abort = TRUE], c, [d EXCEPT !.waiter = TRUE])

stop(s, options) ==
    IF s.lastRequest = "null" THEN s ELSE stopRequest(s, options)

\* ------------------------------------------------------------------ start
start(s, options) ==
    IF s.isPollingActive
    THEN IF ~options.restart THEN s
         ELSE polling(stop(emit(s, "polling_restart"), [cancel |-> TRUE]))
    ELSE polling([emit(s, "polling_started") EXCEPT !.isPollingActive = TRUE])

isPolling(s) == s.lastRequest # "null"

\* what start() and stop() return: a promise that is already resolved, or one
\* that follows a chain (the chain _polling launches, the chain stop() waits
\* for) and settles as the chain does
startReturns(s, options) ==
    IF s.isPollingActive /\ ~options.restart THEN "resolved" ELSE "chain"

stopReturns(s, options) ==
    IF s.lastRequest = "null" \/ options.cancel THEN "resolved" ELSE "chain"

\* ------------------------------------------------------------- the cycle
\* what the cycle hands to the observers or to the console
report(s, channel, what) ==
    [s EXCEPT !.reports = Append(@, [channel |-> channel, what |-> what])]

\* bot.emit('error', new errors.FatalError(err)): the bot hands the error to
\* the observers of 'error', if any, and returns
emitFatal(s) == report(s, "error", "FatalError")

\* a callback or a network operation of the chain throws or rejects; a catch
\* callback that returns handles the rejection
raise(s) == [s EXCEPT !.uncaught = TRUE]
caught(s) == [s EXCEPT !.uncaught = FALSE]

RequestError(status) == [processing |-> FALSE, statusCode |-> status, update |-> 0]
ProcessingError(update) == [processing |-> TRUE, statusCode |-> 0, update |-> update]
Kind(err) == IF err.processing THEN "processing error" ELSE "request error"

\* _error
error(s, err) ==
    IF ~s.hasListener THEN report(s, "console.error", Kind(err))
    ELSE report(s, "polling_error", Kind(err))

\* the chain of cycle c settles: the finally callback of _polling runs, then
\* the callback a stop() attached to the chain; _lastRequest keeps
\* referring to the settled chain, which is rejected if a rejection reached
\* its end and resolved otherwise
settle(s, c) ==
    LET s1 == pollingFinally(s)
        s2 == IF c.waiter THEN stopFinally(s1) ELSE s1
        s3 == [Take(s2, c) EXCEPT !.lastRequest = IF c.last THEN "settled" ELSE @]
    IN [s3 EXCEPT !.done =
            [ran |-> TRUE, trace |-> c.trace,
             outcome |-> IF s.uncaught THEN "rejected" ELSE "resolved",
             answer |-> s.answer, stopCancel |-> c.stopCancel,
             abortSeen |-> s.abort, waited |-> c.waiter,
             rescheduled |-> \/ (s1.pollingTimeout /\ ~s.pollingTimeout)
                             \/ s1.orphanTimers > s.orphanTimers]]

\* (mutant) the offset only ever advances
RECURSIVE forEach_onlyAdvances(_, _, _, _)
forEach_onlyAdvances(updates, k, failAt, st) ==
    IF k > Len(updates) THEN st
    ELSE LET off == IF updates[k] + 1 > st.offset THEN updates[k] + 1 ELSE st.offset
             st1 == [offset |-> off,
                     calls |-> Append(st.calls, [update |-> updates[k], offset |-> off]),
                     thrown |-> k = failAt]
         IN IF k = failAt THEN st1 ELSE forEach_onlyAdvances(updates, k + 1, failAt, st1)

\* (mutant) the offset is advanced after the processor has returned
RECURSIVE forEach_offsetAfterProcessor(_, _, _, _)
forEach_offsetAfterProcessor(updates, k, failAt, st) ==
    IF k > Len(updates) THEN st
    ELSE LET off == IF k = failAt THEN st.offset ELSE updates[k] + 1
             st1 == [offset |-> off,
                     calls |-> Append(st.calls, [update |-> updates[k], offset |-> st.offset]),
                     thrown |-> k = failAt]
         IN IF k = failAt THEN st1
            ELSE forEach_offsetAfterProcessor(updates, k + 1, failAt, st1)

\* updates.forEach(update => ...) from update k on; the processor throws on
\* update failAt (0: it never throws)
RECURSIVE forEach(_, _, _, _)
forEach(updates, k, failAt, st) ==
    IF k > Len(updates) THEN st
    ELSE LET off == updates[k] + 1
             st1 == [offset |-> off,
                     calls |-> Append(st.calls, [update |-> updates[k], offset |-> off]),
                     thrown |-> k = failAt]
         IN IF k = failAt THEN st1 ELSE forEach(updates, k + 1, failAt, st1)

\* the then callback of _polling
pollingThen(s, c, updates, failAt) ==
    LET r == forEach(updates, 1, failAt, [offset |-> s.offset, calls |-> <<>>, thrown |-> FALSE])
    IN [s EXCEPT !.offset = r.offset,
                 !.proc = [ran |-> TRUE, updates |-> updates, failAt |-> failAt,
                           before |-> s.offset, after |-> r.offset,
                           calls |-> r.calls, thrown |-> r.thrown,
                           badRejection |-> s.badRejection]]

\* (mutant) the recovery fetch is made whatever bot.options.badRejection is
handleProcessingError_alwaysRecovers(s, c, err) ==
    LET opts == [offset |-> s.offset, limit |-> 1, timeout |-> 0]
    IN Replace(s, c, [c EXCEPT !.pc = "recover",
                               !.trace = Append(@, GetUpdates(opts)),
                               !.failedId = err.update])

\* (mutant) with recovery disabled the offset is put back on the update the
\* processor failed on, so that the next fetch asks for it again
handleProcessingError_rollsBack(s, c, err) ==
    IF ~s.badRejection THEN settle(caught(error([s EXCEPT !.offset = err.update], err)), c)
    ELSE LET opts == [offset |-> s.offset, limit |-> 1, timeout |-> 0]
         IN Replace(s, c, [c EXCEPT !.pc = "recover",
                                    !.trace = Append(@, GetUpdates(opts)),
                                    !.failedId = err.update])

\* _handleProcessingError, up to its suspension on bot.getUpdates(opts)
handleProcessingError(s, c, err) ==
    IF ~s.badRejection THEN settle(caught(error(s, err)), c)
    ELSE LET opts == [offset |-> s.offset, limit |-> 1, timeout |-> 0]
         IN Replace(caught(s), c, [c EXCEPT !.pc = "recover",
                                    !.trace = Append(@, GetUpdates(opts)),
                                    !.failedId = err.update])

\* the catch callback of _polling
pollingCatch(s, c, err) ==
    IF ~err.processing THEN settle(caught(error(s, err)), c)
    ELSE handleProcessingError(s, c, err)

\* (mutant) the error the processor threw is rethrown without the tag
fetchResolved_untagged(s, c, updates, failAt) ==
    LET s1 == pollingThen(s, c, updates, failAt)
    IN IF s1.proc.thrown THEN pollingCatch(raise(s1), c, RequestError(0))
       ELSE settle(s1, c)

\* getUpdates of cycle c resolves with a batch
fetchResolved(s, c, updates, failAt) ==
    LET s1 == pollingThen(s, c, updates, failAt)
    IN IF s1.proc.thrown THEN pollingCatch(raise(s1), c, ProcessingError(updates[failAt]))
       ELSE settle(s1, c)

\* getUpdates of cycle c rejects: the catch of _getUpdates, which guards the
\* first call only
fetchRejected(s, c, status) ==
    IF c.pc = "fetch" /\ status = ANOTHER_WEB_HOOK_USED
    THEN Replace(s, c, [c EXCEPT !.pc = "unset", !.trace = Append(@, SetWebHook)])
    ELSE pollingCatch(raise(s), c, RequestError(status))

\* _unsetWebHook().then(() => this.bot.getUpdates(this.options.params))
unsetResolved(s, c) ==
    Replace(s, c, [c EXCEPT !.pc = "retry",
                            !.trace = Append(@, GetUpdates(params(s)))])

unsetRejected(s, c, status) == pollingCatch(raise(s), c, RequestError(status))

\* the recovery fetch of _handleProcessingError settles
recoverResolved(s, c) == settle(error(s, ProcessingError(c.failedId)), c)

\* (mutant) a failed recovery fetch is reported like any other error
recoverRejected_plainError(s, c, status) ==
    settle(error(s, ProcessingError(c.failedId)), c)

\* (mutant) the catch callback of the recovery fetch throws the error again
\* after it has emitted the FatalError
recoverRejected_rethrows(s, c, status) ==
    LET s1 == report(raise(s), "console.error", "Internal handling of The Offset Infinite Loop failed")
        s2 == report(s1, "console.error", "Due to error")
        s3 == report(s2, "console.error", "You may receive already-processed updates on app restart")
    IN settle(raise(emitFatal(s3)), c)

recoverRejected(s, c, status) ==
    LET s1 == report(raise(s), "console.error", "Internal handling of The Offset Infinite Loop failed")
        s2 == report(s1, "console.error", "Due to error")
        s3 == report(s2, "console.error", "You may receive already-processed updates on app restart")
    IN settle(caught(emitFatal(s3)), c)

\* ----------------------------------------------------------------- actions
Bounded(s) == s.orphanTimers <= MaxOrphan /\ BagCardinality(s.req) <= MaxCycles

Awaiting(pcs) == {c \in Cycles(cur) : c.pc \in pcs}

Start(restart) ==
    LET s == start(cur, [restart |-> restart])
    IN Bounded(s) /\ Becomes(s)

Stop(cancelIt) ==
    LET s == stop(cur, [cancel |-> cancelIt])
    IN Bounded(s) /\ Becomes(s)

\* Stop, where every cycle that is pending when stop({cancel: true}) is
\* called remembers the call
StopObserved(cancelIt) ==
    LET s0 == IF cancelIt THEN [cur EXCEPT !.req = Marked(@)] ELSE cur
        s == stop(s0, [cancel |-> cancelIt])
    IN Bounded(s) /\ Becomes(s)

\* Start and Stop, where the call is recorded as the last one made
StartCalled(restart) ==
    LET s == [start(cur, [restart |-> restart]) EXCEPT !.lastCall = "start"]
    IN Bounded(s) /\ Becomes(s)

StopCalled(cancelIt) ==
    LET s == [stop(cur, [cancel |-> cancelIt]) EXCEPT !.lastCall = "stop"]
    IN Bounded(s) /\ Becomes(s)

FetchResolved(B) ==
    \E c \in Awaiting({"fetch", "retry"}) : \E updates \in B :
    \E failAt \in 0..Len(updates) :
    \E b \in IF failAt = 0 THEN {FALSE} ELSE BOOLEAN :
    \E h \in IF failAt = 0 THEN {FALSE} ELSE BOOLEAN :
        LET s == fetchResolved(bot(cur, "resolved", b, h), c, updates, failAt)
        IN Bounded(s) /\ Becomes(s)

FetchRejected ==
    \E c \in Awaiting({"fetch", "retry"}) : \E status \in Statuses : \E h \in BOOLEAN :
        LET s == fetchRejected(bot(cur, "rejected", FALSE, h), c, status)
        IN Bounded(s) /\ Becomes(s)

UnsetResolved ==
    \E c \in Awaiting({"unset"}) :
        LET s == unsetResolved(bot(cur, "resolved", FALSE, FALSE), c)
        IN Bounded(s) /\ Becomes(s)

UnsetRejected ==
    \E c \in Awaiting({"unset"}) : \E status \in Statuses : \E h \in BOOLEAN :
        LET s == unsetRejected(bot(cur, "rejected", FALSE, h), c, status)
        IN Bounded(s) /\ Becomes(s)

RecoverResolved ==
    \E c \in Awaiting({"recover"}) : \E h \in BOOLEAN :
        LET s == recoverResolved(bot(cur, "resolved", TRUE, h), c)
        IN Bounded(s) /\ Becomes(s)

RecoverRejected ==
    \E c \in Awaiting({"recover"}) : \E status \in Statuses : \E h \in BOOLEAN :
        LET s == recoverRejected(bot(cur, "rejected", TRUE, h), c, status)
        IN Bounded(s) /\ Becomes(s)

\* setTimeout(() => this._polling(), interval) fires
TimerFires ==
    \E s \in {polling([cur EXCEPT !.pollingTimeout = FALSE]) : x \in {1} \cap {IF pollingTimeout THEN 1 ELSE 0}}
         \cup {polling([cur EXCEPT !.orphanTimers = @ - 1]) : x \in {1} \cap {IF orphanTimers > 0 THEN 1 ELSE 0}} :
        Bounded(s) /\ Becomes(s)

Init ==
    /\ isPollingActive = FALSE
    /\ lastRequest = "null"
    /\ abort = FALSE
    /\ pollingTimeout = FALSE
    /\ orphanTimers = 0
    /\ offset = 0
    /\ req = EmptyBag
    /\ emitted = <<>>
    /\ reports = <<>>
    /\ proc = NoProc
    /\ done = NoDone
    /\ lastCall = "none"

\* the network answers a call of a cycle, or a timer fires
CycleEvent(B) ==
    \/ FetchResolved(B)
    \/ FetchRejected
    \/ UnsetResolved
    \/ UnsetRejected
    \/ RecoverResolved
    \/ RecoverRejected
    \/ TimerFires

\* every interleaving of the API calls and of the events of the cycles
Next ==
    \/ \E restart \in BOOLEAN : Start(restart)
    \/ \E cancelIt \in BOOLEAN : Stop(cancelIt)
    \/ CycleEvent(LifeBatches)

Spec == Init /\ [][Next]_vars

\* the same, where the cycles remember the calls of stop({cancel: true})
NextObserved ==
    \/ \E restart \in BOOLEAN : Start(restart)
    \/ \E cancelIt \in BOOLEAN : StopObserved(cancelIt)
    \/ CycleEvent(LifeBatches)

CancelSpec == Init /\ [][NextObserved]_vars

\* start() and stop() only, so that one chain of cycles runs at a time, with
\* every batch
NextSerial ==
    \/ Start(FALSE)
    \/ \E cancelIt \in BOOLEAN : Stop(cancelIt)
    \/ CycleEvent(Batches)

SerialSpec == Init /\ [][NextSerial]_vars

\* start() only: no stop is ever called.  The network answers every call
\* and a timer that is set fires.
NextLive ==
    \/ Start(FALSE)
    \/ CycleEvent(Batches)

LiveSpec == Init /\ [][NextLive]_vars /\ WF_vars(CycleEvent(Batches))

\* every interleaving, where the last call of start or stop is recorded; the
\* network answers every call and a timer that is set fires
NextCalled ==
    \/ \E restart \in BOOLEAN : StartCalled(restart)
    \/ \E cancelIt \in BOOLEAN : StopCalled(cancelIt)
    \/ CycleEvent(LifeBatches)

CallSpec == Init /\ [][NextCalled]_vars /\ WF_vars(CycleEvent(LifeBatches))

\* ================================================================ claims
InFlightCount == BagCardinality(req)
ChainRunning == InFlightCount > 0 \/ pollingTimeout \/ orphanTimers > 0
Idle == InFlightCount = 0

IsRecovery(call) == call.op = "getUpdates" /\ call.opts.limit = 1
Count(t, P(_)) == Cardinality({k \in DOMAIN t : P(t[k])})
IsUnset(call) == call.op = "setWebHook"
IsErrorReport(r) == r.channel \in {"polling_error", "console.error"} /\
                    r.what \in {"request error", "processing error"}
IsFatal(r) == r.channel = "error" /\ r.what = "FatalError"

\* C1: at most one cycle is in flight in every reachable state.
C1_AtMostOneCycleInFlight == InFlightCount <= 1

\* C2: start() without restart launches no cycle while a chain of cycles is
\* running (a cycle in flight or a timer pending).
C2_StartIsIdempotent ==
    [][(ChainRunning /\ Start(FALSE)) => req' = req]_vars

\* C3: a cycle that was in flight when stop({cancel: true}) was called has
\* no effect afterwards: no offset change, no processing, no report, no
\* further call, no timer.
C3_CancelledFetchHasNoEffect ==
    [][\A c \in BagToSet(req) :
          (c.stopCancel /\ CopiesIn(c, req') < CopiesIn(c, req)) =>
              /\ offset' = offset
              /\ proc' = NoProc /\ done' = NoDone /\ reports' = <<>>
              /\ pollingTimeout' = pollingTimeout
              /\ orphanTimers' = orphanTimers
              /\ BagCardinality(req') < BagCardinality(req)]_vars

\* C4: the cycle a stop({cancel: false}) waits for schedules no next cycle,
\* and when it has settled the controller is inactive, the abort flag is
\* clear and 'polling_stopped' was emitted.
C4_GracefulStopEndsTheChain ==
    (done.ran /\ done.waited) =>
        /\ ~done.rescheduled
        /\ ~abort /\ ~isPollingActive
        /\ emitted = <<"polling_stopped">>

\* C5: after start({restart: true}) on an active controller only the fresh
\* cycle is in flight and no timer is pending.
C5_RestartCancelsFirst ==
    [][(isPollingActive /\ Start(TRUE)) =>
          (BagCardinality(req') = 1 /\ ~pollingTimeout')]_vars

\* a cycle that settles with no abort requested schedules the next cycle
ReschedulesUnlessAborted == (done.ran /\ ~done.abortSeen) => done.rescheduled

\* C6: every cycle that settles with no abort requested schedules the next
\* cycle, whichever path it took; with no stop ever called, and the network
\* and the timer fair, cycles begin and end forever.
C6_EveryPathReschedules ==
    /\ []ReschedulesUnlessAborted
    /\ (isPollingActive /\ Idle) ~> ~Idle
    /\ ~Idle ~> Idle

C6_FailedRecoveryRescheduled ==
    /\ done.ran /\ done.rescheduled
    /\ \E k \in DOMAIN reports : IsFatal(reports[k])

\* C7: a fetch rejected with 409 is followed by exactly one setWebHook call
\* and exactly one retried getUpdates with the parameters of the first; no
\* error is reported when the retry resolves, and a rejected setWebHook or a
\* rejected retry is reported once, as a request error, with no further call.
C7_ConflictTakeover ==
    /\ \A c \in BagToSet(req) :
          c.pc = "retry" => c.trace = <<c.trace[1], SetWebHook, c.trace[1]>>
    /\ (done.ran /\ Count(done.trace, IsUnset) > 0) =>
          /\ Count(done.trace, IsUnset) = 1 /\ IsUnset(done.trace[2])
          /\ Len(done.trace) >= 3 => done.trace[3] = done.trace[1]
          /\ Len(done.trace) <= 3 /\ done.answer = "rejected" =>
                /\ Len(reports) = 1
                /\ IsErrorReport(reports[1]) /\ reports[1].what = "request error"
          /\ Len(done.trace) = 3 /\ done.answer = "resolved" /\ ~proc.thrown =>
                reports = <<>>
          /\ Len(done.trace) = 4 => IsRecovery(done.trace[4])
          /\ Len(done.trace) <= 4

ProcessingFailed == proc.ran /\ proc.thrown
RecoveryAnswered(answer) ==
    /\ done.ran /\ done.answer = answer
    /\ IsRecovery(done.trace[Len(done.trace)])

\* C8: a processing failure with recovery disabled is reported once, with no
\* recovery fetch; with recovery enabled exactly one recovery fetch is made,
\* at the current offset with limit 1 and timeout 0, nothing is reported
\* until it resolves, and then the error is reported once.  A rejected
\* fetch or setWebHook leads to no recovery fetch.
C8_ProcessingFailure ==
    /\ (ProcessingFailed /\ ~proc.badRejection) =>
          /\ done.ran /\ Count(done.trace, IsRecovery) = 0
          /\ Len(reports) = 1
          /\ IsErrorReport(reports[1]) /\ reports[1].what = "processing error"
    /\ (ProcessingFailed /\ proc.badRejection) =>
          /\ ~done.ran /\ reports = <<>>
          /\ offset = proc.updates[proc.failAt] + 1
          /\ \E c \in BagToSet(req) :
                /\ c.pc = "recover" /\ Count(c.trace, IsRecovery) = 1
                /\ c.trace[Len(c.trace)] =
                       GetUpdates([offset |-> offset, limit |-> 1, timeout |-> 0])
    /\ RecoveryAnswered("resolved") =>
          /\ Count(done.trace, IsRecovery) = 1
          /\ Len(reports) = 1
          /\ IsErrorReport(reports[1]) /\ reports[1].what = "processing error"
    /\ (done.ran /\ ~proc.ran /\ ~IsRecovery(done.trace[Len(done.trace)])) =>
          /\ done.answer = "rejected"
          /\ Count(done.trace, IsRecovery) = 0
          /\ Len(reports) = 1 /\ reports[1].what = "request error"
    /\ \A c \in BagToSet(req) :
          /\ Count(c.trace, IsRecovery) <= 1
          /\ c.pc = "recover" <=> Count(c.trace, IsRecovery) = 1
          /\ c.pc = "recover" => c.failedId \in Ids

C8_RecoveryFetchIssued ==
    /\ ProcessingFailed /\ proc.badRejection
    /\ \E c \in BagToSet(req) : c.pc = "recover"

\* C9: when the recovery fetch is rejected a FatalError is emitted on the
\* 'error' channel, no polling error is reported, and the next cycle is
\* scheduled unless an abort was requested.
C9_FailedRecoveryIsFatal ==
    RecoveryAnswered("rejected") =>
        /\ Count(reports, IsFatal) = 1
        /\ Count(reports, IsErrorReport) = 0
        /\ ~done.abortSeen => done.rescheduled

C9_FatalSurfaced ==
    /\ RecoveryAnswered("rejected") /\ done.rescheduled
    /\ Count(reports, IsFatal) = 1

MaxOf(updates) ==
    CHOOSE m \in {updates[k] : k \in DOMAIN updates} :
        \A k \in DOMAIN updates : updates[k] <= m
Ascending(updates) == \A k \in 1..(Len(updates) - 1) : updates[k] < updates[k + 1]
Processed == proc.ran /\ ~proc.thrown

LaunchStep ==
    /\ (\E restart \in BOOLEAN : Start(restart)) \/ TimerFires
    /\ req' # req
LaunchedAt(o) ==
    \A c \in BagToSet(req') :
        c.last => c.trace = <<GetUpdates([offset |-> o, limit |-> 0,
                                          timeout |-> DefaultTimeout])>>

\* the processor was called on the updates of the batch in the order
\* received, up to the one it failed on, each time with the offset already
\* past the update
CalledInOrder ==
    proc.ran =>
        /\ Len(proc.calls) = IF proc.failAt = 0 THEN Len(proc.updates) ELSE proc.failAt
        /\ \A k \in DOMAIN proc.calls :
              /\ proc.calls[k].update = proc.updates[k]
              /\ proc.calls[k].offset = proc.updates[k] + 1
        /\ proc.thrown => offset = proc.updates[proc.failAt] + 1

\* C11: the processor is called on the updates of a batch in the order
\* received, and when it is called on an update the offset is already that
\* update's id plus one; when it fails on an update the offset is that id
\* plus one, nothing but the processing of a later batch changes it, and the
\* next fetch is issued with it.
C11_OffsetVisibleBeforeProcessing ==
    /\ []CalledInOrder
    /\ [][offset' # offset => (proc'.ran /\ proc'.calls # <<>>)]_vars
    /\ [][LaunchStep => (offset' = offset /\ LaunchedAt(offset))]_vars

C11_FailedOnSecondOfDescending ==
    /\ ProcessingFailed /\ proc.updates = <<2, 1>> /\ proc.failAt = 2
    /\ Len(proc.calls) = 2 /\ offset = 2

\* C12: when the processor fails on update k of a batch no later update of
\* the batch is handed to it, the batch leaves the offset at k's id plus
\* one, and the failure is handled as a processing error (reported as one,
\* or followed by the recovery fetch), never as a request error.
C12_FailureAbortsTheBatch ==
    ProcessingFailed =>
        /\ Len(proc.calls) = proc.failAt
        /\ proc.calls[proc.failAt].update = proc.updates[proc.failAt]
        /\ proc.after = proc.updates[proc.failAt] + 1 /\ offset = proc.after
        /\ Count(reports, LAMBDA r : r.what = "request error") = 0
        /\ IF proc.badRejection
           THEN /\ reports = <<>>
                /\ \E c \in BagToSet(req) :
                      c.pc = "recover" /\ c.failedId = proc.updates[proc.failAt]
           ELSE /\ Len(reports) = 1 /\ IsErrorReport(reports[1])
                /\ reports[1].what = "processing error"

C12_LaterUpdateSkipped ==
    /\ ProcessingFailed /\ proc.failAt = 1 /\ Len(proc.updates) = 2
    /\ Len(proc.calls) = 1
    /\ Len(reports) = 1 /\ reports[1].what = "processing error"

\* C13: no step lowers the offset, whatever ids the fetches return.
C13_OffsetNeverDecreases == [][offset' >= offset]_vars

FailedUnrecovered == ProcessingFailed /\ ~proc.badRejection
FailedId == proc.updates[proc.failAt]

\* C14 as claimed: after a processing failure with recovery disabled the
\* next cycle's fetch is issued with an offset that does not acknowledge the
\* failed update (an offset not above its id), so that it is delivered again.
C14_FailedUpdateRedelivered ==
    [][(FailedUnrecovered /\ LaunchStep) =>
          \E o \in 0..FailedId : LaunchedAt(o)]_vars

\* C14 as amended: with recovery disabled a processing failure is reported
\* once with no further fetch and no further change of the offset, which was
\* already advanced to the failed update's id plus one; the next cycle's
\* fetch is issued with that offset, which acknowledges the failed update.
C14_FailedUpdateAcknowledged ==
    /\ [](FailedUnrecovered =>
            /\ done.ran /\ Count(done.trace, IsRecovery) = 0
            /\ Len(reports) = 1 /\ reports[1].what = "processing error"
            /\ offset = FailedId + 1)
    /\ [][(FailedUnrecovered /\ LaunchStep) => LaunchedAt(FailedId + 1)]_vars

C14_FailedThenRescheduled ==
    /\ FailedUnrecovered /\ done.ran /\ done.rescheduled
    /\ pollingTimeout /\ offset = FailedId + 1

C16_IsPollingIffInFlight == isPolling(cur) <=> InFlightCount > 0

Emitted(event) == \E k \in DOMAIN emitted : emitted[k] = event

\* a stop has completed in the last task ('polling_stopped' was emitted), and
\* the task was not a restart, which launches a cycle after its stop
StopCompleted == Emitted("polling_stopped") /\ ~Emitted("polling_restart")

\* C17: when a stop has completed polling is halted: no cycle is in flight
\* and no timer is pending, so that no fetch is started until the next call
\* of start.
C17_HaltedAfterStop == StopCompleted => ~ChainRunning

\* the controller is stopped: before the first start or after a completed
\* stop, with no cycle in flight and no timer pending
Stopped == ~isPollingActive /\ ~abort /\ ~ChainRunning

\* C18: stop() on a stopped controller (before the first start, or after a
\* completed stop) is a no-op: the active flag, the abort flag, the offset
\* and the timer are unchanged, 'polling_stopped' is not emitted and the
\* outcome returned is already resolved.
C18_StopWhenStoppedIsNoOp ==
    [][\A cancelIt \in BOOLEAN :
          (Stopped /\ Stop(cancelIt)) =>
              /\ UNCHANGED <<isPollingActive, abort, offset, pollingTimeout, orphanTimers>>
              /\ ~Emitted("polling_stopped")'
              /\ stopReturns(cur, [cancel |-> cancelIt]) = "resolved"]_vars

\* C19: whenever a cycle is in flight or a timer is pending the controller
\* is active.
C19_RunningImpliesActive == ChainRunning => isPollingActive

\* C20: when the last call made is a start, polling runs and keeps running.
\* Only a cycle in flight or a pending timer can issue a fetch, so in the
\* form a finite run decides: whenever the last call made is a start, a
\* cycle is in flight or a timer is pending.
C20_StartKeepsPollingRunning == lastCall = "start" => ChainRunning

====
